---- MODULE Spec2Model ----
(***************************************************************************)
(* Poisson-disk sampling simulation (full_simulation.py).                  *)
(*                                                                         *)
(* The script is one sequential run: search for an initial point, then a   *)
(* loop of steps, each drawing an active point and trying up to            *)
(* maxAttempts candidates in the annulus around it.  The values returned   *)
(* by rng.next() are the inputs of the run; they are drawn here from       *)
(* bounded sets.  All coordinates of stored points are integers, so every  *)
(* floating-point comparison of the script is restated on integers:        *)
(*   sqrt(a) < r        <=>  a < r*r           (a, r integers, r >= 0)     *)
(*   int(v / cellSize)   =   trunc(v*sqrt(2)/minDistance)                  *)
(***************************************************************************)
EXTENDS Integers, Sequences, FiniteSets, TLC

\* ---------------------------------------------------------------- constants
minDistance == 5
maxAttempts == 50
gridWidth == 72
gridHeight == 48
maxPoints == 15
iterationLimit == 20
initRange == 1000

\* ------------------------------------------------------------------- bounds
\* rng.next() returns k / RngLevels for k in 0..RngLevels-1 (the script's
\* generator has 2^32 levels).
RngLevels == 4
\* Candidate offsets are drawn on a lattice of this pitch.
OffsetPitch == 4
\* Spec: number of iterations whose draws are free; later iterations draw the
\* chain pattern (newest active point; radius minDistance, first at angle pi,
\* then at angle 0).
FreeSteps == 1
\* SpecWide: number of iterations explored, all with free draws.
WideSteps == 2

None == [none |-> TRUE]

Abs(v) == IF v < 0 THEN -v ELSE v

Point(px, py) == [x |-> px, y |-> py]

excludedZones == { [x |-> 36, y |-> 24, radius |-> 1] }

\* k = floor(v * sqrt(2) / minDistance) for v >= 0:
\* the largest k with (k * minDistance)^2 <= 2 * v^2.
FloorCells(v) ==
    CHOOSE k \in 0..(v + 1) :
        /\ k * k * minDistance * minDistance <= 2 * v * v
        /\ (k + 1) * (k + 1) * minDistance * minDistance > 2 * v * v

\* FloorCells over the coordinates a point or a candidate can have.
CellTable == [v \in 0..(gridWidth + gridHeight) |-> FloorCells(v)]

\* Faulty variant: int(v / minDistance), the cell edge without the division by sqrt(2).
CellIndexWholeDistance(v) == IF v >= 0 THEN v \div minDistance ELSE -((-v) \div minDistance)

\* int(v / cellSize): int() truncates toward zero.
CellIndex(v) == IF v >= 0 THEN CellTable[v] ELSE -CellTable[-v]

\* math.ceil(extent / cellSize): the smallest k with
\* (k * minDistance)^2 >= 2 * extent^2.
CeilCells(extent) ==
    CHOOSE k \in 0..extent :
        /\ k * k * minDistance * minDistance >= 2 * extent * extent
        /\ (k - 1) * (k - 1) * minDistance * minDistance < 2 * extent * extent

gridCols == CeilCells(gridWidth)
gridRows == CeilCells(gridHeight)

\* grid = [[None for _ in range(gridCols)] for _ in range(gridRows)]:
\* a sequence of rows, grid[gridY][gridX] in the code is g[gridY + 1][gridX + 1].
EmptyGrid == [r \in 1..gridRows |-> [c \in 1..gridCols |-> None]]

Cell(g, gridY, gridX) == g[gridY + 1][gridX + 1]

DistSq(p, q) == (p.x - q.x) * (p.x - q.x) + (p.y - q.y) * (p.y - q.y)

isInExcludedZone(point) ==
    \E zone \in excludedZones : DistSq(point, zone) < zone.radius * zone.radius

\* Faulty variant: the lower bounds are not tested.
isInBoundsUpperOnly(point) == point.x < gridWidth /\ point.y < gridHeight

isInBounds(point) ==
    /\ 0 <= point.x /\ point.x < gridWidth
    /\ 0 <= point.y /\ point.y < gridHeight

insertIntoGrid(g, point) ==
    LET gridX == CellIndex(point.x)
        gridY == CellIndex(point.y)
    IN  IF 0 <= gridY /\ gridY < gridRows /\ 0 <= gridX /\ gridX < gridCols
        THEN [g EXCEPT ![gridY + 1][gridX + 1] = point]
        ELSE g

\* Faulty variant: a 3x3 window, range(-1, 2).
hasNearbyPoints3x3(g, point) ==
    LET gridX == CellIndex(point.x)
        gridY == CellIndex(point.y)
    IN  \E dy \in -1..1, dx \in -1..1 :
            LET checkX == gridX + dx
                checkY == gridY + dy
            IN  /\ 0 <= checkY /\ checkY < gridRows
                /\ 0 <= checkX /\ checkX < gridCols
                /\ Cell(g, checkY, checkX) # None
                /\ DistSq(point, Cell(g, checkY, checkX)) < minDistance * minDistance

hasNearbyPoints(g, point) ==
    LET gridX == CellIndex(point.x)
        gridY == CellIndex(point.y)
    IN  \E dy \in -2..2, dx \in -2..2 :
            LET checkX == gridX + dx
                checkY == gridY + dy
            IN  /\ 0 <= checkY /\ checkY < gridRows
                /\ 0 <= checkX /\ checkX < gridCols
                /\ Cell(g, checkY, checkX) # None
                /\ DistSq(point, Cell(g, checkY, checkX)) < minDistance * minDistance

\* ------------------------------------------------------------ random draws
\* int(rng.next() * n) for rng.next() = k / RngLevels.
ScaledDraws(n) == { (k * n) \div RngLevels : k \in 0..(RngLevels - 1) }

\* int(rng.next() * n) for a draw in [(n - 1) / n, 1): the last index.
LastIndexDraw(n) == { n - 1 }

\* round(point + radius * (cos angle, sin angle)) - point for
\* angle in [0, 2*pi) and radius in [minDistance, 2*minDistance): the integer
\* offsets whose rounding square [dx-1/2, dx+1/2] x [dy-1/2, dy+1/2] meets the
\* annulus.  Scaled by 2: the far corner is outside the inner circle and the
\* nearest point is inside the outer circle.
NearSide(d) == IF 2 * Abs(d) - 1 > 0 THEN 2 * Abs(d) - 1 ELSE 0

AnnulusOffsets ==
    { o \in (-(2 * minDistance)..(2 * minDistance)) \X (-(2 * minDistance)..(2 * minDistance)) :
        /\ (2 * Abs(o[1]) + 1) * (2 * Abs(o[1]) + 1)
             + (2 * Abs(o[2]) + 1) * (2 * Abs(o[2]) + 1) > 4 * minDistance * minDistance
        /\ NearSide(o[1]) * NearSide(o[1]) + NearSide(o[2]) * NearSide(o[2])
             < 16 * minDistance * minDistance }

CandidateOffsets ==
    { o \in AnnulusOffsets : o[1] % OffsetPitch = 0 /\ o[2] % OffsetPitch = 0 }

\* radius = minDistance (draw 0) at angle 0 (draw 0) and at angle pi (draw 1/2).
Forward == <<minDistance, 0>>
Backward == <<-minDistance, 0>>

\* The (angle, radius) draws of one step, as offsets: the first attempt draws
\* d[1], every later attempt d[2].
FreeDraws == CandidateOffsets \X CandidateOffsets
SteadyDraws == { <<o, o>> : o \in CandidateOffsets }
ChainDraws == { <<Backward, Forward>> }

DrawAt(d, k) == IF k = 0 THEN d[1] ELSE d[2]

\* -------------------------------------------------------------------- state
VARIABLES pc, attempt, initial, points, activeList, grid, iteration,
          randomIndex, i, candidate, rejection_reasons, found, printed

vars == <<pc, attempt, initial, points, activeList, grid, iteration,
          randomIndex, i, candidate, rejection_reasons, found, printed>>

NoRejections == [bounds |-> 0, excluded |-> 0, nearby |-> 0]

Init ==
    /\ pc = "init_search"
    /\ attempt = 0
    /\ initial = None
    /\ points = <<>>
    /\ activeList = <<>>
    /\ grid = EmptyGrid
    /\ iteration = 0
    /\ randomIndex = 0
    /\ i = 0
    /\ candidate = None
    /\ rejection_reasons = NoRejections
    /\ found = FALSE
    /\ printed = {}

\* The draws of the initial search, as candidates: the first pass draws
\* d[1], every later pass d[2].
InitialDraws ==
    LET cands == { Point(cx, cy) : cx \in ScaledDraws(gridWidth),
                                   cy \in ScaledDraws(gridHeight) }
    IN  cands \X cands

\* "for _ in range(1000)" with the draws d: the loop breaks at the first pass
\* whose candidate is outside every zone.  The values of initial and
\* candidate when the loop is left, and the number of passes that did not
\* break.
SearchInitial(d) ==
    LET passes == 0..(initRange - 1)
        breaks == { k \in passes : ~isInExcludedZone(DrawAt(d, k)) }
        first == CHOOSE k \in breaks : \A j \in breaks : k <= j
    IN  IF breaks = {}
        THEN [initial |-> None, candidate |-> DrawAt(d, initRange - 1),
              attempt |-> initRange]
        ELSE [initial |-> DrawAt(d, first), candidate |-> DrawAt(d, first),
              attempt |-> first]

\* Lines 69-77.
FindInitial ==
    /\ pc = "init_search"
    /\ \E d \in InitialDraws :
         LET res == SearchInitial(d)
         IN  /\ initial' = res.initial
             /\ candidate' = res.candidate
             /\ attempt' = res.attempt
    /\ pc' = "print_initial"
    /\ UNCHANGED <<points, activeList, grid, iteration, randomIndex, i,
                   rejection_reasons, found, printed>>

\* print(f"Initial point: ({initial['x']}, ...)") with initial = None:
\* TypeError, uncaught, the interpreter exits.
RaiseTypeError ==
    /\ pc = "print_initial"
    /\ initial = None
    /\ pc' = "TypeError"
    /\ UNCHANGED <<attempt, initial, points, activeList, grid, iteration,
                   randomIndex, i, candidate, rejection_reasons, found, printed>>

\* Lines 79-87.
Setup ==
    /\ pc = "print_initial"
    /\ initial # None
    /\ printed' = printed \cup {"initial"}
    /\ points' = <<initial>>
    /\ activeList' = <<initial>>
    /\ grid' = insertIntoGrid(grid, initial)
    /\ iteration' = 0
    /\ pc' = "loop"
    /\ UNCHANGED <<attempt, initial, randomIndex, i, candidate,
                   rejection_reasons, found>>

\* Faulty variant: the main loop does not test the exclusion zones.
RejectionNoZone(g, c) ==
    IF ~isInBounds(c) THEN "bounds"
    ELSE IF hasNearbyPoints(g, c) THEN "nearby"
    ELSE "none"

\* The checks of one pass, lines 111-119, in the order of the code: the
\* counter the pass increments, or "none" when the candidate is accepted.
Rejection(g, c) ==
    IF ~isInBounds(c) THEN "bounds"
    ELSE IF isInExcludedZone(c) THEN "excluded"
    ELSE IF hasNearbyPoints(g, c) THEN "nearby"
    ELSE "none"

\* Faulty variant: every rejection is counted as "nearby".
CountNearby(rr, reason) == [rr EXCEPT !.nearby = @ + 1]

\* rejection_reasons[reason] += 1
Count(rr, reason) == [rr EXCEPT ![reason] = @ + 1]

Counters == [bounds : 0..maxAttempts, excluded : 0..maxAttempts, nearby : 0..maxAttempts]

\* Lines 102-108 in pass k of a step on point, with the draws d.
Candidate(point, d, k) == Point(point.x + DrawAt(d, k)[1], point.y + DrawAt(d, k)[2])

\* "for i in range(maxAttempts)", lines 101-127, with the draws d: the values
\* of found, i, candidate and rejection_reasons when the loop is left.
\* Pass[k, rr] is the loop from pass k on with the counters rr.
TryCandidates(g, point, d) ==
    LET Pass[k \in 0..(maxAttempts - 1), rr \in Counters] ==
            LET c == Candidate(point, d, k)
                reason == Rejection(g, c)
            IN  IF reason = "none"
                THEN [found |-> TRUE, i |-> k, candidate |-> c,
                      rejection_reasons |-> rr]
                ELSE IF k + 1 = maxAttempts
                THEN [found |-> FALSE, i |-> k, candidate |-> c,
                      rejection_reasons |-> Count(rr, reason)]
                ELSE Pass[k + 1, Count(rr, reason)]
    IN  Pass[0, NoRejections]

\* Faulty variant: activeList.pop(), the last entry.
PopLast(s, idx) == [k \in 1..(Len(s) - 1) |-> s[k]]

\* activeList.pop(randomIndex)
Pop(s, idx) == [k \in 1..(Len(s) - 1) |-> IF k <= idx THEN s[k] ELSE s[k + 1]]

\* Faulty variant: points.append(candidate) is missing.
AcceptActiveOnly(pts, al, g, c) ==
    [points |-> pts, activeList |-> Append(al, c), grid |-> insertIntoGrid(g, c)]

\* Lines 122-124.
Accept(pts, al, g, c) ==
    [points |-> Append(pts, c), activeList |-> Append(al, c),
     grid |-> insertIntoGrid(g, c)]

\* Faulty variant: "if iteration >= 20".
IterationCapHitEarly(n) == n >= iterationLimit

\* Line 136.
IterationCapHit(n) == n > iterationLimit

\* One pass of the while loop, lines 89-138, with the index draw from
\* indexDraws and the candidate draws from draws.
Step(indexDraws, draws) ==
    /\ pc = "loop"
    /\ Len(activeList) > 0 /\ Len(points) < maxPoints
    /\ iteration' = iteration + 1
    /\ \E r \in indexDraws, d \in draws :
         \E res \in { TryCandidates(grid, activeList[r + 1], d) } :
         LET acc == Accept(points, activeList, grid, res.candidate)
         IN  /\ randomIndex' = r
             /\ found' = res.found
             /\ i' = res.i
             /\ candidate' = res.candidate
             /\ rejection_reasons' = res.rejection_reasons
             /\ points' = IF res.found THEN acc.points ELSE points
             /\ grid' = IF res.found THEN acc.grid ELSE grid
             /\ activeList' = IF res.found THEN acc.activeList
                              ELSE Pop(activeList, r)
             /\ printed' = printed \cup {"iteration"}
                   \cup (IF res.found THEN {"found"} ELSE {"failed"})
                   \cup (IF IterationCapHit(iteration + 1) THEN {"stopping"} ELSE {})
    /\ pc' = IF IterationCapHit(iteration + 1) THEN "summary" ELSE "loop"
    /\ UNCHANGED <<attempt, initial>>

FreeStep ==
    /\ iteration < FreeSteps
    /\ Step(ScaledDraws(Len(activeList)), FreeDraws)

ChainStep ==
    /\ iteration >= FreeSteps
    /\ Step(LastIndexDraw(Len(activeList)), ChainDraws)

WideStep ==
    /\ iteration < WideSteps
    /\ Step(ScaledDraws(Len(activeList)), SteadyDraws)

\* Loop guard false.
ExitLoop ==
    /\ pc = "loop"
    /\ ~(Len(activeList) > 0 /\ Len(points) < maxPoints)
    /\ pc' = "summary"
    /\ UNCHANGED <<attempt, initial, points, activeList, grid, iteration,
                   randomIndex, i, candidate, rejection_reasons, found, printed>>

\* Lines 140-141.
Summary ==
    /\ pc = "summary"
    /\ printed' = printed \cup {"final"}
    /\ pc' = "done"
    /\ UNCHANGED <<attempt, initial, points, activeList, grid, iteration,
                   randomIndex, i, candidate, rejection_reasons, found>>

Next ==
    \/ FindInitial
    \/ RaiseTypeError
    \/ Setup
    \/ FreeStep
    \/ ChainStep
    \/ ExitLoop
    \/ Summary

Spec == Init /\ [][Next]_vars

\* The script is sequential: whenever a statement remains, it is executed.
FairSpec == Spec /\ WF_vars(Next)

\* The first WideSteps iterations, with free draws in each.
NextWide ==
    \/ FindInitial
    \/ RaiseTypeError
    \/ Setup
    \/ WideStep
    \/ ExitLoop
    \/ Summary

SpecWide == Init /\ [][NextWide]_vars

\* ------------------------------------------------------------------ claims
Pairs(n) == { pr \in (1..n) \X (1..n) : pr[1] # pr[2] }

StepDone == iteration >= 1 /\ pc \in {"loop", "summary", "done"}

\* C1: in every reachable state every two distinct entries of points are at
\* Euclidean distance >= minDistance: the 5x5-cell window of hasNearbyPoints
\* never lets through a candidate closer than minDistance to a placed point.
MinDistanceKept ==
    \A pr \in Pairs(Len(points)) :
        DistSq(points[pr[1]], points[pr[2]]) >= minDistance * minDistance

\* A failed step whose candidate was closer than minDistance to a placed point
\* two cells away, and to no point nearer in cells.
MinDistanceWitness ==
    /\ StepDone /\ ~found /\ rejection_reasons.nearby = maxAttempts
    /\ \E j \in 1..Len(points) : DistSq(candidate, points[j]) < minDistance * minDistance
    /\ \A j \in 1..Len(points) :
          DistSq(candidate, points[j]) < minDistance * minDistance
            => \/ Abs(CellIndex(candidate.x) - CellIndex(points[j].x)) = 2
               \/ Abs(CellIndex(candidate.y) - CellIndex(points[j].y)) = 2

\* C2: every point of points (the initial point and every accepted candidate)
\* is at distance >= radius from the center of every exclusion zone; a point
\* at distance exactly radius is not in the zone.
ExclusionKept ==
    /\ \A j \in 1..Len(points) : \A zone \in excludedZones :
          DistSq(points[j], zone) >= zone.radius * zone.radius
    /\ \A zone \in excludedZones :
          /\ ~isInExcludedZone(Point(zone.x + zone.radius, zone.y))
          /\ ~isInExcludedZone(Point(zone.x, zone.y - zone.radius))

\* The initial search rejected a draw inside the zone, and later a step failed
\* on candidates inside the zone.
ExclusionWitness ==
    /\ StepDone /\ attempt > 0 /\ ~found
    /\ rejection_reasons.excluded = maxAttempts
    /\ \E zone \in excludedZones :
          DistSq(candidate, zone) < zone.radius * zone.radius

\* C3: every point of points has 0 <= x < gridWidth and 0 <= y < gridHeight.
BoundsKept ==
    \A j \in 1..Len(points) :
        /\ points[j].x \in 0..(gridWidth - 1)
        /\ points[j].y \in 0..(gridHeight - 1)

\* A step failed on candidates left of or below the domain, with two points placed.
BoundsWitness ==
    /\ StepDone /\ ~found /\ Len(points) >= 2
    /\ rejection_reasons.bounds = maxAttempts
    /\ (candidate.x < 0 \/ candidate.y < 0)

\* C4: an exhausted initial search is reported as an initialization failure;
\* the run does not crash on the missing initial point.
NoCrashOnMissingInitial == pc # "TypeError"

\* C5: every run eventually reaches its final summary.
RunReachesSummary == <>(pc = "done")

\* C6: the loop stops exactly when activeList is empty, points holds maxPoints
\* entries or the iteration cap is hit; points never holds more than maxPoints
\* entries, at most iterationLimit + 1 iterations are started, and the
\* truncation notice is printed exactly when the cap stops the loop.
HaltingCondition ==
    /\ Len(points) <= maxPoints
    /\ iteration <= iterationLimit + 1
    /\ pc = "loop" => iteration <= iterationLimit
    /\ pc \in {"summary", "done"} =>
          \/ activeList = <<>>
          \/ Len(points) = maxPoints
          \/ iteration = iterationLimit + 1
    /\ ("stopping" \in printed) <=>
          (pc \in {"summary", "done"} /\ iteration = iterationLimit + 1)

\* The run ended on the iteration cap alone.
HaltingWitness ==
    /\ pc = "done" /\ "stopping" \in printed
    /\ activeList # <<>> /\ Len(points) < maxPoints

\* C7: every entry of activeList is an entry of points, and activeList is no
\* longer than points.
ActiveSubsetOfPlaced ==
    /\ \A k \in 1..Len(activeList) : \E j \in 1..Len(points) : points[j] = activeList[k]
    /\ Len(activeList) <= Len(points)

\* Points were accepted and points were evicted, and some remain active.
ActiveSubsetWitness ==
    /\ StepDone
    /\ Len(activeList) >= 2
    /\ Len(activeList) + 2 <= Len(points)

\* C8: after a step the three counters sum to maxAttempts when the step
\* failed and to the number of passes before the accepting one when it
\* accepted; a rejected candidate is counted under the first of bounds,
\* excluded, nearby that applies to it.
RejectionAccounting ==
    StepDone =>
        LET rr == rejection_reasons
            total == rr.bounds + rr.excluded + rr.nearby
        IN  /\ found => total = i
            /\ ~found => /\ i = maxAttempts - 1
                         /\ total = maxAttempts
                         /\ ~isInBounds(candidate) => rr.bounds >= 1
                         /\ (isInBounds(candidate) /\ isInExcludedZone(candidate))
                               => rr.excluded >= 1
                         /\ (isInBounds(candidate) /\ ~isInExcludedZone(candidate))
                               => rr.nearby >= 1

\* A failed step with rejections of two kinds.
RejectionAccountingWitness ==
    /\ StepDone /\ ~found
    /\ rejection_reasons.bounds = 1
    /\ rejection_reasons.nearby = maxAttempts - 1

InCell(v, k) ==
    /\ k * k * minDistance * minDistance <= 2 * v * v
    /\ 2 * v * v < (k + 1) * (k + 1) * minDistance * minDistance

OccupiedCells ==
    { rc \in (1..gridRows) \X (1..gridCols) : grid[rc[1]][rc[2]] # None }

\* C10: no insertion is skipped and none overwrites: the number of occupied
\* cells is Len(points), and every placed point is stored in the cell of the
\* grid computed from its own coordinates.
GridFaithful ==
    /\ Cardinality(OccupiedCells) = Len(points)
    /\ \A j \in 1..Len(points) :
          \E rc \in (1..gridRows) \X (1..gridCols) :
              /\ InCell(points[j].y, rc[1] - 1)
              /\ InCell(points[j].x, rc[2] - 1)
              /\ grid[rc[1]][rc[2]] = points[j]

\* A step failed on a candidate whose cell was occupied.
GridWitness ==
    /\ StepDone /\ ~found /\ isInBounds(candidate)
    /\ Len(points) >= 2
    /\ Cell(grid, CellIndex(candidate.y), CellIndex(candidate.x)) # None
====
